---- MODULE Spec2Model ----
(***************************************************************************)
(* A model of two layers of keras_cv and of the DeepLabV3 constructor:     *)
(*   keras_cv/layers/preprocessing/grayscale.py   Grayscale                *)
(*   keras_cv/layers/spatial_pyramid.py           SpatialPyramidPooling    *)
(*   keras_cv/models/segmentation/deeplab_test.py DeepLabV3 (its tests)    *)
(*                                                                         *)
(* A behaviour is the life of one object: a constructor runs from the      *)
(* empty state, then the methods of the constructed object run in any      *)
(* order with any arguments.  `last` records the last operation, its       *)
(* argument and its outcome (a returned value or a raised error).          *)
(*                                                                         *)
(* Tensors of the Grayscale layer carry their values (nested sequences,    *)
(* channels last).  Tensors of SpatialPyramidPooling are modelled by their *)
(* shape <<batch, height, width, channels>>: the layer's weights are not   *)
(* part of the model.                                                      *)
(***************************************************************************)
EXTENDS Integers, Sequences, FiniteSets, TLC

VARIABLES
    obj,                    \* class of the live object, "none" before construction
    ctor_args,              \* the keyword arguments the constructor received
    output_channels,        \* Grayscale.output_channels
    auto_vectorize,         \* Grayscale.auto_vectorize
    level,                  \* SpatialPyramidPooling.level
    dilation_rates,         \* SpatialPyramidPooling.dilation_rates
    num_channels,           \* SpatialPyramidPooling.num_channels
    activation,             \* SpatialPyramidPooling.activation
    dropout,                \* SpatialPyramidPooling.dropout (in tenths)
    built,                  \* tf.keras.layers.Layer.built
    aspp_parallel_channels, \* SpatialPyramidPooling.aspp_parallel_channels, <<>> while unset
    projection,             \* SpatialPyramidPooling.projection, <<>> while unset
    last                    \* the last operation: [op, arg, kind, ...]

vars == <<obj, ctor_args, output_channels, auto_vectorize, level, dilation_rates,
          num_channels, activation, dropout, built, aspp_parallel_channels,
          projection, last>>

grayscaleFields == <<output_channels, auto_vectorize>>
sppConfig == <<level, dilation_rates, num_channels, activation, dropout>>
sppFields == <<level, dilation_rates, num_channels, activation, dropout, built,
               aspp_parallel_channels, projection>>

----------------------------------------------------------------------------
(* Bounds of the model *)

MaxBatch == 2
MaxHeight == 2
MaxWidth == 2
MaxClasses == 3

----------------------------------------------------------------------------
(* Python values *)

Returned(v) == [kind |-> "returned", value |-> v]
Raised(e) == [kind |-> "raised", error |-> e]

\* A Python dict built from a list of (key, value) items: a later item wins.
Keys(items) == {items[i][1] : i \in 1..Len(items)}

DictGet(items, k) ==
    LET idx == {i \in 1..Len(items) : items[i][1] = k}
        top == CHOOSE i \in idx : \A j \in idx : j <= i
    IN items[top][2]

HasKey(items, k) == k \in Keys(items)

\* dict(list(a.items()) + list(b.items())), as a list of items without
\* duplicate keys, in insertion order: a key keeps the position of its first
\* occurrence and takes the value of its last.
RECURSIVE DictOfItems(_, _)
DictOfItems(items, done) ==
    IF items = <<>> THEN done
    ELSE LET k == Head(items)[1]
             v == Head(items)[2]
         IN IF HasKey(done, k)
            THEN DictOfItems(Tail(items),
                     [i \in 1..Len(done) |->
                         IF done[i][1] = k THEN <<k, v>> ELSE done[i]])
            ELSE DictOfItems(Tail(items), Append(done, <<k, v>>))

DictMerge(base_config, config) == DictOfItems(base_config \o config, <<>>)

\* What super().get_config() may return: the configuration of the Keras base
\* layer (name, trainable, dtype).  The call leaves this repository, so the
\* model lets it return any of the mappings below; the last one of each class
\* carries keys the subclass also writes.
BaseConfigs ==
    { << <<"name", "layer">>, <<"trainable", "True">>, <<"dtype", "float32">> >>,
      << <<"name", "layer_1">>, <<"trainable", "False">>, <<"dtype", "float16">> >> }

GrayscaleBaseConfigs ==
    BaseConfigs \cup
    { << <<"name", "layer">>, <<"output_channels", 7>>, <<"trainable", "True">> >> }

SPPBaseConfigs ==
    BaseConfigs \cup
    { << <<"level", 9>>, <<"name", "layer">>, <<"num_channels", 1>> >> }

----------------------------------------------------------------------------
(* Grayscale: images *)

\* Sample RGB pixels, values in [0, 255]
Palette == << <<255, 0, 0>>, <<10, 200, 90>>, <<0, 0, 255>>, <<128, 128, 128>> >>

Seeds == 0..(Len(Palette) - 1)

PixelAt(s, n, i, j) == Palette[((s + n + i + 2 * j) % Len(Palette)) + 1]

\* An image of shape (h, w, 3), or (b, h, w, 3) when b > 0
MakeImage(b, h, w, s) ==
    IF b = 0
    THEN [rank |-> 3,
          data |-> [i \in 1..h |-> [j \in 1..w |-> PixelAt(s, 0, i, j)]]]
    ELSE [rank |-> 4,
          data |-> [n \in 1..b |-> [i \in 1..h |-> [j \in 1..w |->
                       PixelAt(s, n, i, j)]]]]

Images ==
    {MakeImage(b, h, w, s) : b \in 0..MaxBatch, h \in 1..MaxHeight,
                             w \in 1..MaxWidth, s \in Seeds}

RECURSIVE ShapeOf(_, _)
ShapeOf(data, rank) ==
    IF rank = 0 THEN <<>>
    ELSE <<Len(data)>> \o ShapeOf(data[1], rank - 1)

Shape(t) == ShapeOf(t.data, t.rank)

\* tf.image.rgb_to_grayscale: the weighted sum of the last axis with the
\* weights 0.2989, 0.5870, 0.1140, kept as a last axis of size 1.  The sum is
\* computed in ten-thousandths and truncated.
GrayValue(pixel) ==
    (2989 * pixel[1] + 5870 * pixel[2] + 1140 * pixel[3]) \div 10000

RECURSIVE RgbToGrayscaleData(_, _)
RgbToGrayscaleData(data, rank) ==
    IF rank = 1 THEN <<GrayValue(data)>>
    ELSE [i \in 1..Len(data) |-> RgbToGrayscaleData(data[i], rank - 1)]

rgb_to_grayscale(image) ==
    [rank |-> image.rank, data |-> RgbToGrayscaleData(image.data, image.rank)]

\* tf.image.grayscale_to_rgb: the last axis, of size 1, tiled three times.
RECURSIVE GrayscaleToRgbData(_, _)
GrayscaleToRgbData(data, rank) ==
    IF rank = 1 THEN <<data[1], data[1], data[1]>>
    ELSE [i \in 1..Len(data) |-> GrayscaleToRgbData(data[i], rank - 1)]

grayscale_to_rgb(image) ==
    [rank |-> image.rank, data |-> GrayscaleToRgbData(image.data, image.rank)]

----------------------------------------------------------------------------
(* Grayscale *)

\* The keyword arguments Grayscale is constructed with; <<>> takes the default.
GrayscaleArgs ==
    { <<>>,
      << <<"output_channels", 1>> >>,
      << <<"output_channels", 3>> >>,
      << <<"output_channels", 5>> >>,
      << <<"output_channels", 0>> >> }

\* Grayscale.__init__(self, output_channels=1, **kwargs): the fields it sets
Grayscale__init__(kwargs) ==
    [output_channels |-> IF HasKey(kwargs, "output_channels")
                         THEN DictGet(kwargs, "output_channels") ELSE 1,
     auto_vectorize |-> FALSE]

\* Grayscale._check_input_params: defined by the class, called by none of its
\* methods (and not by __init__).
_check_input_params(oc) ==
    IF oc \notin {1, 3} THEN Raised("ValueError") ELSE Returned(oc)

\* augment_image with the tiling of the three-channel case left out
augment_image_NoTile(self_output_channels, image) ==
    LET grayscale == rgb_to_grayscale(image)
    IN IF self_output_channels = 1 THEN Returned(grayscale)
       ELSE IF self_output_channels = 3 THEN Returned(image)
       ELSE Raised("ValueError")

\* Grayscale.augment_image
augment_image(self_output_channels, image) ==
    LET grayscale == rgb_to_grayscale(image)
    IN IF self_output_channels = 1 THEN Returned(grayscale)
       ELSE IF self_output_channels = 3 THEN Returned(grayscale_to_rgb(grayscale))
       ELSE Raised("ValueError")

\* augment_bounding_boxes losing the first box
augment_bounding_boxes_DropFirst(bounding_boxes) ==
    IF bounding_boxes = <<>> THEN bounding_boxes ELSE Tail(bounding_boxes)

augment_bounding_boxes(bounding_boxes) == bounding_boxes

augment_label(label, transformation) == label

augment_segmentation_mask(segmentation_mask, transformation) == segmentation_mask

\* get_config returning the base configuration alone
GrayscaleGetConfig_BaseOnly(self_output_channels, base_config) ==
    DictMerge(base_config, <<>>)

\* Grayscale.get_config, given what super().get_config() returned
GrayscaleGetConfig(self_output_channels, base_config) ==
    LET config == << <<"output_channels", self_output_channels>> >>
    IN DictMerge(base_config, config)

\* Arguments of the hooks
Transformations == {"None", "t1"}

BoundingBoxes ==
    { <<>>,
      << <<0, 0, 1, 1, 7>> >>,
      << <<0, 0, 2, 2, 1>>, <<1, 0, 2, 1, 3>> >> }

Labels == { <<0>>, <<1>>, <<0, 1, 0>> }

SegmentationMasks ==
    {rgb_to_grayscale(MakeImage(0, h, w, s)) :
        h \in 1..MaxHeight, w \in 1..MaxWidth, s \in {0, 1}}

NoObject ==
    /\ obj = "none"
    /\ ctor_args = <<>>
    /\ output_channels = 0
    /\ auto_vectorize = FALSE
    /\ level = 0
    /\ dilation_rates = <<>>
    /\ num_channels = 0
    /\ activation = ""
    /\ dropout = 0
    /\ built = FALSE
    /\ aspp_parallel_channels = <<>>
    /\ projection = <<>>

GrayscaleConstruct(kwargs) ==
    /\ NoObject
    /\ obj' = "Grayscale"
    /\ ctor_args' = kwargs
    /\ output_channels' = Grayscale__init__(kwargs).output_channels
    /\ auto_vectorize' = Grayscale__init__(kwargs).auto_vectorize
    /\ last' = [op |-> "__init__", arg |-> kwargs, kind |-> "returned"]
    /\ UNCHANGED sppFields

\* augment_image storing a normalised channel count in the layer
GrayscaleAugmentImage_Normalises(image) ==
    /\ obj = "Grayscale"
    /\ last' = [op |-> "augment_image", arg |-> image]
                   @@ augment_image(output_channels, image)
    /\ output_channels' = IF output_channels = 3 THEN 3 ELSE 1
    /\ UNCHANGED <<obj, ctor_args, auto_vectorize, sppFields>>

GrayscaleAugmentImage(image) ==
    /\ obj = "Grayscale"
    /\ last' = [op |-> "augment_image", arg |-> image]
                   @@ augment_image(output_channels, image)
    /\ UNCHANGED <<obj, ctor_args, grayscaleFields, sppFields>>

GrayscaleAugmentBoundingBoxes(bounding_boxes) ==
    /\ obj = "Grayscale"
    /\ last' = [op |-> "augment_bounding_boxes", arg |-> bounding_boxes]
                   @@ Returned(augment_bounding_boxes(bounding_boxes))
    /\ UNCHANGED <<obj, ctor_args, grayscaleFields, sppFields>>

GrayscaleAugmentLabel(label, transformation) ==
    /\ obj = "Grayscale"
    /\ last' = [op |-> "augment_label", arg |-> label, transformation |-> transformation]
                   @@ Returned(augment_label(label, transformation))
    /\ UNCHANGED <<obj, ctor_args, grayscaleFields, sppFields>>

GrayscaleAugmentSegmentationMask(segmentation_mask, transformation) ==
    /\ obj = "Grayscale"
    /\ last' = [op |-> "augment_segmentation_mask", arg |-> segmentation_mask,
                transformation |-> transformation]
                   @@ Returned(augment_segmentation_mask(segmentation_mask, transformation))
    /\ UNCHANGED <<obj, ctor_args, grayscaleFields, sppFields>>

GrayscaleGetConfigCall(base_config) ==
    /\ obj = "Grayscale"
    /\ last' = [op |-> "get_config", arg |-> base_config]
                   @@ Returned(GrayscaleGetConfig(output_channels, base_config))
    /\ UNCHANGED <<obj, ctor_args, grayscaleFields, sppFields>>

GrayscaleNext ==
    \/ \E kwargs \in GrayscaleArgs : GrayscaleConstruct(kwargs)
    \/ \E image \in Images : GrayscaleAugmentImage(image)
    \/ \E b \in BoundingBoxes : GrayscaleAugmentBoundingBoxes(b)
    \/ \E l \in Labels, t \in Transformations : GrayscaleAugmentLabel(l, t)
    \/ \E m \in SegmentationMasks, t \in Transformations :
           GrayscaleAugmentSegmentationMask(m, t)
    \/ \E base_config \in GrayscaleBaseConfigs : GrayscaleGetConfigCall(base_config)

----------------------------------------------------------------------------
(* SpatialPyramidPooling: arguments *)

\* The keyword arguments SpatialPyramidPooling is constructed with; dropout is
\* given in tenths (5 is 0.5).
SPPArgs ==
    { << <<"level", 4>>, <<"dilation_rates", <<6, 12, 18>> >> >>,
      << <<"level", 3>>, <<"dilation_rates", <<6>> >>, <<"num_channels", 2>>,
         <<"activation", "swish">>, <<"dropout", 5>> >>,
      << <<"level", 4>>, <<"dilation_rates", <<>> >>, <<"num_channels", 4>>,
         <<"dropout", 1>> >>,
      << <<"level", 5>>, <<"dilation_rates", <<2, 4>> >>, <<"activation", "gelu">> >> }

Levels == {3, 4, 5}

Channels == {3, 8}

\* A feature map of level l is Scale(l) times as high and wide as that of level 5.
Scale(l) == IF l = 5 THEN 1 ELSE IF l = 4 THEN 2 ELSE 4

TensorShapes ==
    {<<b, h, w, c>> : b \in 1..MaxBatch, h \in 1..MaxHeight, w \in 1..MaxWidth,
                      c \in Channels}

\* The arguments of build and call.  A tensor is modelled by its shape, so the
\* dict of shapes build receives and the dict of tensors call receives are the
\* same value.
FeatureDict(ls, shape) ==
    [kind |-> "dict",
     items |-> [l \in ls |-> <<shape[1], shape[2] * Scale(l), shape[3] * Scale(l),
                               shape[4]>>]]

\* Every level with every shape, every set of levels with two shapes, and two
\* arguments that are not dicts.
SPPInputs ==
    {FeatureDict(Levels, shape) : shape \in TensorShapes}
    \cup {FeatureDict(ls, shape) :
             ls \in SUBSET Levels,
             shape \in {<<1, 1, 1, 3>>, <<MaxBatch, MaxHeight, MaxWidth, 8>>}}
    \cup {[kind |-> "tensor", items |-> <<1, MaxHeight, MaxWidth, 3>>],
          [kind |-> "list", items |-> << <<1, MaxHeight, MaxWidth, 3>> >>]}

isinstance_dict(x) == x.kind = "dict"

\* SpatialPyramidPooling.__init__: the fields it sets
SpatialPyramidPooling__init__(kwargs) ==
    [level |-> DictGet(kwargs, "level"),
     dilation_rates |-> DictGet(kwargs, "dilation_rates"),
     num_channels |-> IF HasKey(kwargs, "num_channels")
                      THEN DictGet(kwargs, "num_channels") ELSE 256,
     activation |-> IF HasKey(kwargs, "activation")
                    THEN DictGet(kwargs, "activation") ELSE "relu",
     dropout |-> IF HasKey(kwargs, "dropout") THEN DictGet(kwargs, "dropout") ELSE 0]

----------------------------------------------------------------------------
(* SpatialPyramidPooling: the sub-networks *)

\* A tf.keras.Sequential of the layer.  in_channels is the channel count its
\* Conv2D was built for, 0 until its first call; target, height and width are
\* those of the Reshape and Resizing layers of the pooling branch.
ConvSequential(filters, kernel_size, dilation_rate, act) ==
    [kind |-> "conv", filters |-> filters, kernel_size |-> kernel_size,
     dilation_rate |-> dilation_rate, activation |-> act, in_channels |-> 0,
     target |-> 0, height |-> 0, width |-> 0]

PoolSequential(filters, act, channels, height, width) ==
    [kind |-> "pool", filters |-> filters, kernel_size |-> 1,
     dilation_rate |-> 1, activation |-> act, in_channels |-> 0,
     target |-> channels, height |-> height, width |-> width]

ProjectionSequential(filters, act, rate) ==
    [filters |-> filters, activation |-> act, rate |-> rate, in_channels |-> 0]

\* build without the test that the dict contains the level: the lookup fails
SPPBuildResult_NoLevelCheck(self, input_shape) ==
    IF ~isinstance_dict(input_shape) THEN Raised("ValueError")
    ELSE IF self.level \notin DOMAIN input_shape.items THEN Raised("KeyError")
    ELSE LET input_shape_at_level == input_shape.items[self.level]
         IN [kind |-> "returned",
             aspp_parallel_channels |->
                 <<ConvSequential(self.num_channels, 1, 1, self.activation)>>
                 \o [i \in 1..Len(self.dilation_rates) |->
                        ConvSequential(self.num_channels, 3, self.dilation_rates[i],
                                       self.activation)]
                 \o <<PoolSequential(self.num_channels, self.activation,
                                     input_shape_at_level[4],
                                     input_shape_at_level[2],
                                     input_shape_at_level[3])>>,
             projection |->
                 ProjectionSequential(self.num_channels, self.activation,
                                      self.dropout)]

\* SpatialPyramidPooling.build: the error it raises, or the attributes it assigns
SPPBuildResult(self, input_shape) ==
    IF ~isinstance_dict(input_shape) THEN Raised("ValueError")
    ELSE IF self.level \notin DOMAIN input_shape.items THEN Raised("ValueError")
    ELSE LET input_shape_at_level == input_shape.items[self.level]
             height == input_shape_at_level[2]
             width == input_shape_at_level[3]
             channels == input_shape_at_level[4]
             conv_sequential ==
                 ConvSequential(self.num_channels, 1, 1, self.activation)
             dilated ==
                 [i \in 1..Len(self.dilation_rates) |->
                     ConvSequential(self.num_channels, 3, self.dilation_rates[i],
                                    self.activation)]
             pool_sequential ==
                 PoolSequential(self.num_channels, self.activation, channels,
                                height, width)
         IN [kind |-> "returned",
             aspp_parallel_channels |->
                 <<conv_sequential>> \o dilated \o <<pool_sequential>>,
             projection |->
                 ProjectionSequential(self.num_channels, self.activation,
                                      self.dropout)]

\* The Conv2D of a Sequential on an input with c channels: it is built on its
\* first call and rejects another channel count afterwards.
ConvAccepts(seq, c) == seq.in_channels \in {0, c}

\* CallChannel with the Resizing layer of the pooling branch left out
CallChannel_NoResizing(channel, x) ==
    IF channel.kind = "conv"
    THEN IF ConvAccepts(channel, x[4])
         THEN [ok |-> TRUE, channel |-> [channel EXCEPT !.in_channels = x[4]],
               shape |-> <<x[1], x[2], x[3], channel.filters>>, error |-> ""]
         ELSE [ok |-> FALSE, channel |-> channel, shape |-> <<>>,
               error |-> "ValueError"]
    ELSE IF x[4] = channel.target /\ ConvAccepts(channel, channel.target)
         THEN [ok |-> TRUE,
               channel |-> [channel EXCEPT !.in_channels = channel.target],
               shape |-> <<x[1], 1, 1, channel.filters>>,
               error |-> ""]
         ELSE [ok |-> FALSE, channel |-> channel, shape |-> <<>>,
               error |-> "ValueError"]

\* One parallel branch called on a tensor x = <<batch, height, width, channels>>.
\* A 1x1 convolution, and a 3x3 one with padding "same", keep the spatial
\* dimensions.  The pooling branch averages to <<batch, channels>>, reshapes
\* to <<batch, 1, 1, target>>, convolves and resizes to the height and width
\* given to build.
CallChannel(channel, x) ==
    IF channel.kind = "conv"
    THEN IF ConvAccepts(channel, x[4])
         THEN [ok |-> TRUE, channel |-> [channel EXCEPT !.in_channels = x[4]],
               shape |-> <<x[1], x[2], x[3], channel.filters>>, error |-> ""]
         ELSE [ok |-> FALSE, channel |-> channel, shape |-> <<>>,
               error |-> "ValueError"]
    ELSE IF x[4] = channel.target /\ ConvAccepts(channel, channel.target)
         THEN [ok |-> TRUE,
               channel |-> [channel EXCEPT !.in_channels = channel.target],
               shape |-> <<x[1], channel.height, channel.width, channel.filters>>,
               error |-> ""]
         ELSE [ok |-> FALSE, channel |-> channel, shape |-> <<>>,
               error |-> "ValueError"]

\* for channel in self.aspp_parallel_channels: result.append(...), from index i
RECURSIVE RunChannels(_, _, _, _)
RunChannels(channels, x, i, result) ==
    IF i > Len(channels)
    THEN [ok |-> TRUE, channels |-> channels, result |-> result, error |-> ""]
    ELSE LET r == CallChannel(channels[i], x)
         IN IF r.ok
            THEN RunChannels([channels EXCEPT ![i] = r.channel], x, i + 1,
                             Append(result, r.shape))
            ELSE [ok |-> FALSE, channels |-> channels, result |-> result,
                  error |-> r.error]

RECURSIVE SumLast(_)
SumLast(shapes) ==
    IF shapes = <<>> THEN 0 ELSE Head(shapes)[4] + SumLast(Tail(shapes))

\* tf.concat(result, axis=-1): the other dimensions must agree
ConcatLast(shapes) ==
    IF \A i \in 1..Len(shapes) :
           \A d \in 1..3 : shapes[i][d] = shapes[1][d]
    THEN [ok |-> TRUE,
          shape |-> <<shapes[1][1], shapes[1][2], shapes[1][3], SumLast(shapes)>>]
    ELSE [ok |-> FALSE, shape |-> <<>>]

\* The body of SpatialPyramidPooling.call on the given sub-networks: the
\* outcome, the sub-networks after it, and the number of branches evaluated.
SPPCallBody(self_level, channels, proj, inputs) ==
    IF ~isinstance_dict(inputs) \/ self_level \notin DOMAIN inputs.items
    THEN [out |-> Raised("ValueError"), channels |-> channels, projection |-> proj,
          evaluated |-> 0]
    ELSE LET input_at_level == inputs.items[self_level]
             run == RunChannels(channels, input_at_level, 1, <<>>)
             cat == ConcatLast(run.result)
         IN IF ~run.ok
            THEN [out |-> Raised(run.error), channels |-> run.channels,
                  projection |-> proj, evaluated |-> Len(run.result)]
            ELSE IF ~cat.ok
            THEN [out |-> Raised("InvalidArgumentError"), channels |-> run.channels,
                  projection |-> proj, evaluated |-> Len(run.result)]
            ELSE IF ~ConvAccepts(proj, cat.shape[4])
            THEN [out |-> Raised("ValueError"), channels |-> run.channels,
                  projection |-> proj, evaluated |-> Len(run.result)]
            ELSE [out |-> Returned([l \in {self_level} |->
                            <<cat.shape[1], cat.shape[2], cat.shape[3], proj.filters>>]),
                  channels |-> run.channels,
                  projection |-> [proj EXCEPT !.in_channels = cat.shape[4]],
                  evaluated |-> Len(run.result)]

\* get_config without the dropout entry
SPPGetConfig_NoDropout(self, base_config) ==
    LET config == << <<"level", self.level>>,
                     <<"dilation_rates", self.dilation_rates>>,
                     <<"num_channels", self.num_channels>>,
                     <<"activation", self.activation>> >>
    IN DictMerge(base_config, config)

\* SpatialPyramidPooling.get_config, given what super().get_config() returned
SPPGetConfig(self, base_config) ==
    LET config == << <<"level", self.level>>,
                     <<"dilation_rates", self.dilation_rates>>,
                     <<"num_channels", self.num_channels>>,
                     <<"activation", self.activation>>,
                     <<"dropout", self.dropout>> >>
    IN DictMerge(base_config, config)

Self ==
    [level |-> level, dilation_rates |-> dilation_rates,
     num_channels |-> num_channels, activation |-> activation, dropout |-> dropout]

----------------------------------------------------------------------------
(* SpatialPyramidPooling: operations *)

SPPConstruct(kwargs) ==
    /\ NoObject
    /\ obj' = "SpatialPyramidPooling"
    /\ ctor_args' = kwargs
    /\ level' = SpatialPyramidPooling__init__(kwargs).level
    /\ dilation_rates' = SpatialPyramidPooling__init__(kwargs).dilation_rates
    /\ num_channels' = SpatialPyramidPooling__init__(kwargs).num_channels
    /\ activation' = SpatialPyramidPooling__init__(kwargs).activation
    /\ dropout' = SpatialPyramidPooling__init__(kwargs).dropout
    /\ last' = [op |-> "__init__", arg |-> kwargs, kind |-> "returned"]
    /\ UNCHANGED <<grayscaleFields, built, aspp_parallel_channels, projection>>

\* layer.build(input_shape), called by the user.  The method does not set
\* `built`.
SPPBuild(input_shape) ==
    /\ obj = "SpatialPyramidPooling"
    /\ LET r == SPPBuildResult(Self, input_shape)
       IN IF r.kind = "raised"
          THEN /\ last' = [op |-> "build", arg |-> input_shape] @@ r
               /\ UNCHANGED <<aspp_parallel_channels, projection>>
          ELSE /\ aspp_parallel_channels' = r.aspp_parallel_channels
               /\ projection' = r.projection
               /\ last' = [op |-> "build", arg |-> input_shape, kind |-> "returned"]
    /\ UNCHANGED <<obj, ctor_args, grayscaleFields, sppConfig, built>>

\* layer(inputs): Keras runs build on the shapes of the inputs if the layer
\* is not built yet, marks it built, then runs call.  The `training` argument
\* is passed on to the sub-networks and changes no shape; it is left out.
SPPCall(inputs) ==
    /\ obj = "SpatialPyramidPooling"
    /\ LET b == IF built THEN [kind |-> "skipped"] ELSE SPPBuildResult(Self, inputs)
       IN IF b.kind = "raised"
          THEN /\ last' = [op |-> "call", arg |-> inputs, evaluated |-> 0,
                           built_here |-> FALSE] @@ b
               /\ UNCHANGED <<built, aspp_parallel_channels, projection>>
          ELSE LET channels == IF built THEN aspp_parallel_channels
                               ELSE b.aspp_parallel_channels
                   proj == IF built THEN projection ELSE b.projection
                   c == SPPCallBody(level, channels, proj, inputs)
               IN /\ built' = TRUE
                  /\ aspp_parallel_channels' = c.channels
                  /\ projection' = c.projection
                  /\ last' = [op |-> "call", arg |-> inputs,
                              evaluated |-> c.evaluated, built_here |-> ~built]
                                 @@ c.out
    /\ UNCHANGED <<obj, ctor_args, grayscaleFields, sppConfig>>

SPPGetConfigCall(base_config) ==
    /\ obj = "SpatialPyramidPooling"
    /\ last' = [op |-> "get_config", arg |-> base_config]
                   @@ Returned(SPPGetConfig(Self, base_config))
    /\ UNCHANGED <<obj, ctor_args, grayscaleFields, sppFields>>

SPPNext ==
    \/ \E kwargs \in SPPArgs : SPPConstruct(kwargs)
    \/ \E input_shape \in SPPInputs : SPPBuild(input_shape)
    \/ \E inputs \in SPPInputs : SPPCall(inputs)
    \/ \E base_config \in SPPBaseConfigs : SPPGetConfigCall(base_config)

----------------------------------------------------------------------------
(* DeepLabV3: the constructor, as its tests describe it *)

SupportedBackbones == {"resnet50_v2"}

SupportedDecoders == {"fpn"}

\* Values passed as backbone and decoder: a string, a tf.keras.layers.Layer,
\* or another object (tf.Module()).
Backbones ==
    { [type |-> "str", value |-> "resnet50_v2"],
      [type |-> "str", value |-> "resnet_v3"],
      [type |-> "Layer", value |-> "ResNet50V2.as_backbone"],
      [type |-> "Module", value |-> "tf.Module"] }

Decoders ==
    { [type |-> "str", value |-> "fpn"],
      [type |-> "str", value |-> "aspp"],
      [type |-> "Layer", value |-> "FeaturePyramid"] }

DeepLabV3Args ==
    [classes : 1..MaxClasses, include_rescaling : BOOLEAN,
     backbone : Backbones, decoder : Decoders]

BackboneNotSupported(args) ==
    args.backbone.type = "str" /\ args.backbone.value \notin SupportedBackbones

BackboneNotLayer(args) == args.backbone.type \notin {"str", "Layer"}

DecoderNotSupported(args) ==
    args.decoder.type = "str" /\ args.decoder.value \notin SupportedDecoders

ValueError(text, listed) ==
    [kind |-> "raised", error |-> "ValueError", text |-> text, listed |-> listed]

\* DeepLabV3.__init__ accepting every decoder string
DeepLabV3__init___AnyDecoder(args) ==
    IF BackboneNotSupported(args)
    THEN ValueError("Supported premade backbones are: ", SupportedBackbones)
    ELSE IF BackboneNotLayer(args)
    THEN ValueError("Backbone need to be a tf.keras.layers.Layer", {})
    ELSE [kind |-> "returned"]

\* DeepLabV3.__init__: the argument checks
DeepLabV3__init__(args) ==
    IF BackboneNotSupported(args)
    THEN ValueError("Supported premade backbones are: ", SupportedBackbones)
    ELSE IF BackboneNotLayer(args)
    THEN ValueError("Backbone need to be a tf.keras.layers.Layer", {})
    ELSE IF DecoderNotSupported(args)
    THEN ValueError("Supported premade decoder are: ", SupportedDecoders)
    ELSE [kind |-> "returned"]

DeepLabV3Construct(args) ==
    /\ NoObject
    /\ LET r == DeepLabV3__init__(args)
       IN /\ last' = [op |-> "DeepLabV3", arg |-> args] @@ r
          /\ IF r.kind = "returned"
             THEN obj' = "DeepLabV3" /\ ctor_args' = <<args>>
             ELSE UNCHANGED <<obj, ctor_args>>
    /\ UNCHANGED <<grayscaleFields, sppFields>>

----------------------------------------------------------------------------
(* Specification *)

Init ==
    /\ NoObject
    /\ last = [op |-> "none"]

Next ==
    \/ GrayscaleNext
    \/ SPPNext
    \/ \E args \in DeepLabV3Args : DeepLabV3Construct(args)

Spec == Init /\ [][Next]_vars

----------------------------------------------------------------------------
(* Properties of Grayscale *)

\* data is a tensor of exactly this shape
RECURSIVE HasShape(_, _)
HasShape(data, shape) ==
    IF shape = <<>> THEN TRUE
    ELSE /\ Len(data) = Head(shape)
         /\ \A i \in 1..Len(data) : HasShape(data[i], Tail(shape))

\* the vectors along the last axis
RECURSIVE PixelsOf(_, _)
PixelsOf(data, rank) ==
    IF rank = 1 THEN {data}
    ELSE UNION {PixelsOf(data[i], rank - 1) : i \in 1..Len(data)}

WithChannels(shape, c) == [shape EXCEPT ![Len(shape)] = c]

\* C1: constructing a Grayscale layer with output_channels outside {1, 3}
\* fails at construction, so every constructed Grayscale layer has
\* output_channels in {1, 3}.
C1_ConstructedHasValidChannels ==
    obj = "Grayscale" => output_channels \in {1, 3}

\* C2: on an image of shape (..., H, W, 3), augment_image returns an image
\* with the same leading and spatial dimensions, with 1 channel when
\* output_channels = 1, and with 3 channels equal per pixel when
\* output_channels = 3.
C2_AugmentImageShape ==
    (obj = "Grayscale" /\ last.op = "augment_image" /\ output_channels \in {1, 3}) =>
        /\ last.kind = "returned"
        /\ last.value.rank = last.arg.rank
        /\ HasShape(last.value.data, WithChannels(Shape(last.arg), output_channels))
        /\ output_channels = 3 =>
               \A p \in PixelsOf(last.value.data, last.value.rank) :
                   p[1] = p[2] /\ p[2] = p[3]

C2_Witness ==
    /\ obj = "Grayscale"
    /\ last.op = "augment_image"
    /\ output_channels = 3
    /\ last.kind = "returned"
    /\ Shape(last.arg) = <<MaxBatch, MaxHeight, MaxWidth, 3>>
    /\ \E p \in PixelsOf(last.arg.data, last.arg.rank) : p[1] # p[2]

\* C3: augment_bounding_boxes, augment_label and augment_segmentation_mask
\* return their argument unchanged, for every argument and transformation.
C3_HooksAreIdentity ==
    (obj = "Grayscale" /\ last.op \in {"augment_bounding_boxes", "augment_label",
                                        "augment_segmentation_mask"}) =>
        /\ last.kind = "returned"
        /\ last.value = last.arg

C3_Witness ==
    /\ obj = "Grayscale"
    /\ last.op = "augment_bounding_boxes"
    /\ Len(last.arg) = 2
    /\ last.kind = "returned"

\* C4: get_config() is the base configuration extended with output_channels,
\* and the layer constructed from it has the same output_channels and
\* auto_vectorize, hence treats every image as the original does.
C4_GrayscaleConfigRoundTrip ==
    (obj = "Grayscale" /\ last.op = "get_config") =>
        LET config == last.value
            base_config == last.arg
            clone == Grayscale__init__(config)
        IN /\ last.kind = "returned"
           /\ Keys(config) = Keys(base_config) \cup {"output_channels"}
           /\ Len(config) = Cardinality(Keys(config))
           /\ \A k \in Keys(base_config) \ {"output_channels"} :
                  DictGet(config, k) = DictGet(base_config, k)
           /\ DictGet(config, "output_channels") = output_channels
           /\ clone.output_channels = output_channels
           /\ clone.auto_vectorize = auto_vectorize
           /\ auto_vectorize = FALSE
           /\ \A image \in Images :
                  augment_image(clone.output_channels, image)
                      = augment_image(output_channels, image)

C4_Witness ==
    /\ obj = "Grayscale"
    /\ last.op = "get_config"
    /\ output_channels = 3
    /\ last.kind = "returned"
    /\ Grayscale__init__(last.value).output_channels = 3

----------------------------------------------------------------------------
(* Properties of SpatialPyramidPooling *)

SPPLive == obj = "SpatialPyramidPooling"

Malformed(x, lvl) == ~isinstance_dict(x) \/ lvl \notin DOMAIN x.items

\* A sub-network of the layer was built for another height, width or channel
\* count than that of the tensor x.
Mismatch(x) ==
    \E i \in 1..Len(aspp_parallel_channels) :
        LET ch == aspp_parallel_channels[i]
        IN \/ ch.kind = "pool" /\ <<ch.height, ch.width, ch.target>> # <<x[2], x[3], x[4]>>
           \/ ch.in_channels \notin {0, x[4]}

\* C5: the configuration fields of a layer have the values given at
\* construction after any sequence of its operations.
C5_ConfigurationFixed ==
    /\ obj = "Grayscale" =>
           /\ output_channels = Grayscale__init__(ctor_args).output_channels
           /\ auto_vectorize = FALSE
    /\ SPPLive => Self = SpatialPyramidPooling__init__(ctor_args)

C5_Witness ==
    /\ obj = "Grayscale"
    /\ ctor_args = << <<"output_channels", 5>> >>
    /\ last.op = "augment_image"
    /\ output_channels = 5

\* C6 as stated: for every input dict that contains the configured level,
\* call returns a dict with exactly one key, the level, whose value has
\* shape [batch, height_l, width_l, num_channels].
C6_CallAlwaysReturnsLevel ==
    (SPPLive /\ last.op = "call" /\ ~Malformed(last.arg, level)) =>
        LET x == last.arg.items[level]
        IN /\ last.kind = "returned"
           /\ DOMAIN last.value = {level}
           /\ last.value[level] = <<x[1], x[2], x[3], num_channels>>

\* C6 amended: for every input dict that contains the configured level, call
\* raises exactly when a sub-network was built for another height, width or
\* channel count than that of the tensor at the level, which is never the case
\* in the call that builds the layer; otherwise it returns a dict with exactly
\* one key, the level, of shape [batch, height_l, width_l, num_channels].
C6_CallReturnsLevelOrRejectsShape ==
    (SPPLive /\ last.op = "call" /\ ~Malformed(last.arg, level)) =>
        LET x == last.arg.items[level]
        IN /\ last.kind = "returned" =>
                  /\ DOMAIN last.value = {level}
                  /\ last.value[level] = <<x[1], x[2], x[3], num_channels>>
           /\ last.kind = "raised" <=> Mismatch(x)
           /\ last.built_here => last.kind = "returned"

C6_Witness ==
    /\ SPPLive
    /\ last.op = "call"
    /\ ~Malformed(last.arg, level)
    /\ DOMAIN last.arg.items = Levels
    /\ last.kind = "returned"
    /\ ~last.built_here
    /\ last.arg.items[level][1] = MaxBatch
    /\ last.arg.items[level][2] # last.arg.items[level][3]
    /\ Len(dilation_rates) > 1

\* C7: get_config() is the base configuration extended with level,
\* dilation_rates, num_channels, activation and dropout at their construction
\* values, the layer's entries winning over base entries of the same key, and
\* the layer constructed from it has the same five values.
C7_SPPConfigRoundTrip ==
    (SPPLive /\ last.op = "get_config") =>
        LET config == last.value
            base_config == last.arg
            own == {"level", "dilation_rates", "num_channels", "activation", "dropout"}
            given == SpatialPyramidPooling__init__(ctor_args)
        IN /\ last.kind = "returned"
           /\ Keys(config) = Keys(base_config) \cup own
           /\ Len(config) = Cardinality(Keys(config))
           /\ \A k \in Keys(base_config) \ own :
                  DictGet(config, k) = DictGet(base_config, k)
           /\ DictGet(config, "level") = given.level
           /\ DictGet(config, "dilation_rates") = given.dilation_rates
           /\ DictGet(config, "num_channels") = given.num_channels
           /\ DictGet(config, "activation") = given.activation
           /\ DictGet(config, "dropout") = given.dropout
           /\ SpatialPyramidPooling__init__(config) = Self

C7_Witness ==
    /\ SPPLive
    /\ last.op = "get_config"
    /\ last.kind = "returned"
    /\ HasKey(last.arg, "level")
    /\ DictGet(last.value, "level") = 4
    /\ dropout = 1

\* C10: build and call raise a ValueError when the argument is not a dict or
\* is a dict without the configured level; build then assigns no attribute,
\* and call evaluates no branch and returns nothing.
C10_MalformedInputRejected ==
    [][(SPPLive /\ last'.op \in {"build", "call"} /\ Malformed(last'.arg, level)) =>
           /\ last'.kind = "raised"
           /\ last'.error = "ValueError"
           /\ aspp_parallel_channels' = aspp_parallel_channels
           /\ projection' = projection
           /\ built' = built
           /\ last'.op = "call" => last'.evaluated = 0]_vars

C10_Witness ==
    /\ SPPLive
    /\ last.op = "build"
    /\ isinstance_dict(last.arg)
    /\ level \notin DOMAIN last.arg.items
    /\ last.kind = "raised"
    /\ aspp_parallel_channels # <<>>

----------------------------------------------------------------------------
(* Properties of DeepLabV3 *)

\* C8: constructing DeepLabV3 raises a ValueError and yields no model when
\* backbone is an unsupported string (the message lists the supported
\* backbones, resnet50_v2 among them), when backbone is an object that is not
\* a Layer, or when decoder is an unsupported string (the message lists the
\* supported decoders, fpn among them).
C8_DeepLabRejectsInvalidComponents ==
    (last.op = "DeepLabV3" /\ (\/ BackboneNotSupported(last.arg)
                               \/ BackboneNotLayer(last.arg)
                               \/ DecoderNotSupported(last.arg))) =>
        /\ last.kind = "raised"
        /\ last.error = "ValueError"
        /\ obj = "none"
        /\ \/ /\ BackboneNotSupported(last.arg)
              /\ last.text = "Supported premade backbones are: "
              /\ "resnet50_v2" \in last.listed
           \/ /\ BackboneNotLayer(last.arg)
              /\ last.text = "Backbone need to be a tf.keras.layers.Layer"
           \/ /\ DecoderNotSupported(last.arg)
              /\ last.text = "Supported premade decoder are: "
              /\ "fpn" \in last.listed

C8_Witness ==
    /\ last.op = "DeepLabV3"
    /\ last.arg.backbone.type = "Layer"
    /\ last.arg.decoder = [type |-> "str", value |-> "aspp"]
    /\ last.kind = "raised"
    /\ obj = "none"

====
